---- MODULE Spec2Model ----
(***************************************************************************)
(* Three design-pattern demonstration programs: Iterator                   *)
(* (src/iterator/iterator.cpp), Observer (src/observer/observer.cpp) and   *)
(* Visitor (src/visitor/visitor.cpp).  Each program is an independent      *)
(* executable; `demo` says which one a behaviour is a run of.  The classes *)
(* are driven by an arbitrary client: every public method may be called in *)
(* any order while the objects are alive; the fixed call sequences of the  *)
(* three main() functions are particular behaviours.                       *)
(***************************************************************************)
EXTENDS Integers, Sequences, FiniteSets, TLC

\* ---- bounds of the model ------------------------------------------------
MaxItems == 3        \* add() calls on the CustomCollection
NumCursors == 2      \* ForwardIterator objects created over the collection
MaxInt == 2          \* int values range over 1..MaxInt
NumObservers == 2    \* ConcreteObserver objects
MaxAttached == 3     \* length of ConcreteSubject::observers
MaxAnimals == 4      \* animals owned by the Zoo

Ints == 1..MaxInt
Cursors == 1..NumCursors
Observers == 1..NumObservers
Indexes == (-1)..MaxItems
Kinds == {"Lion", "Tiger"}

VARIABLES
    demo,          \* which executable runs: "iterator", "observer", "visitor"
    stack,         \* objects with automatic storage in main(), in construction order
    trace,         \* construction and destruction lines written to std::cout so far
    ret,           \* the last call made by the client: its result and the lines it printed
    items,         \* CustomCollection::items
    added,         \* arguments of the add() calls so far, in call order
    currentIndex,  \* ForwardIterator::currentIndex, per created cursor
    yielded,       \* elements returned by next() so far, per created cursor
    state,         \* ConcreteSubject::state
    observers,     \* ConcreteSubject::observers
    obsState,      \* ConcreteObserver::state, per constructed observer
    attachCount,   \* attach(o) calls since the last detach(o), per observer
    lastNotified,  \* <<v>>: subject state at the last notify() made while o was attached
    animals        \* Zoo::animals

vars == <<demo, stack, trace, ret, items, added, currentIndex, yielded,
          state, observers, obsState, attachCount, lastNotified, animals>>

iterVars == <<items, added, currentIndex, yielded>>
obsVars == <<state, observers, obsState, attachCount, lastNotified>>
visVars == <<animals>>

\* ---- objects and trace lines --------------------------------------------
Obj(cls, id) == [cls |-> cls, id |-> id]
Line(obj, ev, text) == [obj |-> obj, ev |-> ev, text |-> text]

Collection == Obj("CustomCollection", 0)
SubjectObj == Obj("ConcreteSubject", 0)
ObserverObj(o) == Obj("ConcreteObserver", o)
ZooObj == Obj("Zoo", 0)
VisitorObj == Obj("FeedingVisitor", 0)
AnimalObj(i, a) == Obj(a.kind, i)

Range(s) == {s[i] : i \in 1..Len(s)}
Alive(obj) == obj \in Range(stack)

\* constructor and destructor bodies: the line each prints
CustomCollectionCtor == Line(Collection, "created", <<"CustomCollection created">>)
CustomCollectionDtor == Line(Collection, "destroyed", <<"CustomCollection destroyed">>)
ConcreteSubjectCtor == Line(SubjectObj, "created", <<"ConcreteSubject created">>)
ConcreteSubjectDtor == Line(SubjectObj, "destroyed", <<"ConcreteSubject destroyed">>)
ConcreteObserverCtor(o) == Line(ObserverObj(o), "created", <<"ConcreteObserver created">>)
ConcreteObserverDtor(o) == Line(ObserverObj(o), "destroyed", <<"ConcreteObserver destroyed">>)
ZooCtor == Line(ZooObj, "created", <<"Zoo created">>)
ZooDtorBody == Line(ZooObj, "destroyed", <<"Zoo destroyed">>)
FeedingVisitorCtor == Line(VisitorObj, "created", <<"FeedingVisitor created">>)
FeedingVisitorDtor == Line(VisitorObj, "destroyed", <<"FeedingVisitor destroyed">>)
getName(a) == a.name
LionCtor(i, a) == Line(AnimalObj(i, a), "created", <<"Lion ", a.name, " created">>)
LionDtor(i, a) == Line(AnimalObj(i, a), "destroyed", <<"Lion ", a.name, " destroyed">>)
TigerCtor(i, a) == Line(AnimalObj(i, a), "created", <<"Tiger ", a.name, " created">>)
TigerDtor(i, a) == Line(AnimalObj(i, a), "destroyed", <<"Tiger ", a.name, " destroyed">>)
AnimalCtor(i, a) == IF a.kind = "Lion" THEN LionCtor(i, a) ELSE TigerCtor(i, a)
\* virtual ~Animal(): the destructor of the animal's concrete class runs
AnimalDtor(i, a) == IF a.kind = "Lion" THEN LionDtor(i, a) ELSE TigerDtor(i, a)

\* ~vector<unique_ptr<Animal>>: every element is destroyed once; the element
\* order is the library's choice (first to last, or last to first)
VectorOrders == {"forward", "backward"}
VectorDtor(ans, order) ==
    [k \in 1..Len(ans) |->
        LET i == IF order = "forward" THEN k ELSE Len(ans) + 1 - k
        IN AnimalDtor(i, ans[i])]

\* ~Zoo(): the body prints, then the member `animals` is destroyed
ZooDtor(ans, order) == <<ZooDtorBody>> \o VectorDtor(ans, order)

Dtor(obj, ans, order) ==
    CASE obj.cls = "CustomCollection" -> <<CustomCollectionDtor>>
      [] obj.cls = "ConcreteSubject" -> <<ConcreteSubjectDtor>>
      [] obj.cls = "ConcreteObserver" -> <<ConcreteObserverDtor(obj.id)>>
      [] obj.cls = "FeedingVisitor" -> <<FeedingVisitorDtor>>
      [] obj.cls = "Zoo" -> ZooDtor(ans, order)

\* faulty variant: objects destroyed in construction order
RECURSIVE Unwind_fifo(_, _, _)
Unwind_fifo(stk, ans, order) ==
    IF stk = <<>> THEN <<>>
    ELSE Dtor(stk[1], ans, order) \o Unwind_fifo(SubSeq(stk, 2, Len(stk)), ans, order)

\* leaving main(): automatic objects are destroyed last-constructed first
RECURSIVE Unwind(_, _, _)
Unwind(stk, ans, order) ==
    IF stk = <<>> THEN <<>>
    ELSE Dtor(stk[Len(stk)], ans, order) \o Unwind(SubSeq(stk, 1, Len(stk) - 1), ans, order)

\* ---- Iterator demo: pure methods ----------------------------------------
OutOfRange == [err |-> "out_of_range", val |-> <<>>]
Returned(v) == [err |-> "none", val |-> <<v>>]

\* int -> size_t comparison `index < items.size()`: a negative int converts to
\* a value above every vector size, so the comparison is false for it
UnsignedLess(index, n) == IF index < 0 THEN FALSE ELSE index < n

size(its) == Len(its)

add(its, item) == Append(its, item)

\* faulty variant: 1-based indexing
get_one_based(its, index) ==
    IF index >= 1 /\ index <= Len(its) THEN Returned(its[index]) ELSE OutOfRange

get(its, index) ==
    IF index >= 0 /\ UnsignedLess(index, Len(its))
    THEN Returned(its[index + 1])
    ELSE OutOfRange

\* faulty variant: off-by-one comparison
hasNext_inclusive(its, idx) == idx <= size(its)

hasNext(its, idx) == idx < size(its)

\* faulty variant: get(++currentIndex) instead of get(currentIndex++)
next_preincrement(its, idx) ==
    IF ~hasNext(its, idx)
    THEN [res |-> OutOfRange, idx |-> idx]
    ELSE [res |-> get(its, idx + 1), idx |-> idx + 1]

\* faulty variant: no hasNext() guard before get(currentIndex++)
next_unguarded(its, idx) == [res |-> get(its, idx), idx |-> idx + 1]

\* next(): the result and the cursor's index afterwards; currentIndex++ is
\* evaluated before get() is entered
next(its, idx) ==
    IF ~hasNext(its, idx)
    THEN [res |-> OutOfRange, idx |-> idx]
    ELSE [res |-> get(its, idx), idx |-> idx + 1]

\* ---- Iterator demo: calls -----------------------------------------------
InitIterator ==
    /\ demo = "iterator"
    /\ stack = <<Collection>>
    /\ trace = <<CustomCollectionCtor>>
    /\ ret = [op |-> "CustomCollection"]
    /\ items = <<>>
    /\ added = <<>>
    /\ currentIndex = <<>>
    /\ yielded = <<>>
    /\ state = 1
    /\ observers = <<>>
    /\ obsState = <<>>
    /\ attachCount = [o \in Observers |-> 0]
    /\ lastNotified = [o \in Observers |-> <<>>]
    /\ animals = <<>>

CallAdd(item) ==
    /\ demo = "iterator"
    /\ Alive(Collection)
    /\ Len(added) < MaxItems
    /\ items' = add(items, item)
    /\ added' = Append(added, item)
    /\ ret' = [op |-> "add", arg |-> item]
    /\ UNCHANGED <<demo, stack, trace, currentIndex, yielded, obsVars, visVars>>

CallSize ==
    /\ demo = "iterator"
    /\ Alive(Collection)
    /\ ret' = [op |-> "size", res |-> Returned(size(items))]
    /\ UNCHANGED <<demo, stack, trace, iterVars, obsVars, visVars>>

CallGet(index) ==
    /\ demo = "iterator"
    /\ Alive(Collection)
    /\ ret' = [op |-> "get", arg |-> index, res |-> get(items, index)]
    /\ UNCHANGED <<demo, stack, trace, iterVars, obsVars, visVars>>

\* createIterator() and the direct ForwardIterator constructor both bind the
\* new cursor to the collection with currentIndex 0
CallCreateIterator ==
    /\ demo = "iterator"
    /\ Alive(Collection)
    /\ Len(currentIndex) < NumCursors
    /\ currentIndex' = Append(currentIndex, 0)
    /\ yielded' = Append(yielded, <<>>)
    /\ ret' = [op |-> "createIterator", cursor |-> Len(currentIndex) + 1]
    /\ UNCHANGED <<demo, stack, trace, items, added, obsVars, visVars>>

CallHasNext(c) ==
    /\ demo = "iterator"
    /\ Alive(Collection)
    /\ c \in DOMAIN currentIndex
    /\ ret' = [op |-> "hasNext", cursor |-> c, res |-> hasNext(items, currentIndex[c])]
    /\ UNCHANGED <<demo, stack, trace, iterVars, obsVars, visVars>>

\* faulty variant: one position shared by every cursor (a static currentIndex)
CallNext_shared(c) ==
    /\ demo = "iterator"
    /\ Alive(Collection)
    /\ c \in DOMAIN currentIndex
    /\ LET r == next(items, currentIndex[c]) IN
        /\ currentIndex' = [d \in DOMAIN currentIndex |-> r.idx]
        /\ yielded' = [yielded EXCEPT ![c] = @ \o r.res.val]
        /\ ret' = [op |-> "next", cursor |-> c, res |-> r.res]
    /\ UNCHANGED <<demo, stack, trace, items, added, obsVars, visVars>>

CallNext(c) ==
    /\ demo = "iterator"
    /\ Alive(Collection)
    /\ c \in DOMAIN currentIndex
    /\ LET r == next(items, currentIndex[c]) IN
        /\ currentIndex' = [currentIndex EXCEPT ![c] = r.idx]
        /\ yielded' = [yielded EXCEPT ![c] = @ \o r.res.val]
        /\ ret' = [op |-> "next", cursor |-> c, res |-> r.res]
    /\ UNCHANGED <<demo, stack, trace, items, added, obsVars, visVars>>

\* return from main(): the cursors print nothing, the collection's
\* destructor prints its line
ReturnIterator ==
    /\ demo = "iterator"
    /\ Alive(Collection)
    /\ stack' = <<>>
    /\ trace' = trace \o Unwind(stack, animals, "forward")
    /\ ret' = [op |-> "return"]
    /\ UNCHANGED <<demo, iterVars, obsVars, visVars>>

NextIter ==
    \/ \E item \in Ints : CallAdd(item)
    \/ CallSize
    \/ \E index \in Indexes : CallGet(index)
    \/ CallCreateIterator
    \/ \E c \in Cursors : CallHasNext(c)
    \/ \E c \in Cursors : CallNext(c)
    \/ ReturnIterator

SpecIter == InitIterator /\ [][NextIter]_vars

\* ---- Iterator demo: properties ------------------------------------------
IsPrefix(s, t) == Len(s) <= Len(t) /\ s = SubSeq(t, 1, Len(s))

\* C1: after N add() calls a cursor driven by hasNext()/next() returns the
\* added elements in the order of the add() calls, and when hasNext() has
\* answered false it has returned exactly the N elements added
C1_TraversalInAppendOrder ==
    /\ \A c \in DOMAIN yielded : IsPrefix(yielded[c], added)
    /\ (ret.op = "hasNext" /\ ~ret.res) =>
            /\ yielded[ret.cursor] = added
            /\ Len(yielded[ret.cursor]) = Len(added)

C1_Witness ==
    /\ ret.op = "hasNext" /\ ~ret.res
    /\ added = <<1, 2, 1>>
    /\ yielded[ret.cursor] = <<1, 2, 1>>

\* C2: hasNext() answers true iff position < size; next() with hasNext()
\* true returns the element at the position and advances by exactly one;
\* next() with hasNext() false fails with out_of_range and returns nothing
C2_CursorContract ==
    [][/\ ret'.op = "hasNext" =>
            (ret'.res <=> currentIndex[ret'.cursor] < Len(items))
       /\ ret'.op = "next" =>
            LET c == ret'.cursor IN
            IF currentIndex[c] < Len(items)
            THEN /\ ret'.res.err = "none"
                 /\ ret'.res.val = <<items[currentIndex[c] + 1]>>
                 /\ currentIndex'[c] = currentIndex[c] + 1
            ELSE /\ ret'.res.err = "out_of_range"
                 /\ ret'.res.val = <<>>]_vars

C2_Witness ==
    /\ ret.op = "next" /\ ret.res.err = "out_of_range"
    /\ Len(items) = 2
    /\ yielded[ret.cursor] = items

\* C3: get(index) fails with out_of_range when index < 0 or index >= size();
\* otherwise it returns the element the (index+1)-th add() placed; get()
\* never changes the container
C3_GetContract ==
    [][ret'.op = "get" =>
            /\ items' = items
            /\ LET i == ret'.arg IN
               IF i < 0 \/ i >= Len(items)
               THEN ret'.res.err = "out_of_range" /\ ret'.res.val = <<>>
               ELSE ret'.res.err = "none" /\ ret'.res.val = <<added[i + 1]>>]_vars

C3_Witness ==
    /\ ret.op = "get" /\ ret.arg = 1 /\ ret.res.val = <<2>>
    /\ added = <<1, 2>>

\* C9: a hasNext() or next() call on one cursor leaves every other cursor's
\* position and the container's contents unchanged, and each cursor has
\* yielded exactly the elements before its own position, in insertion order
C9_CursorsIndependent ==
    [][ret'.op \in {"hasNext", "next"} =>
            /\ items' = items
            /\ \A d \in DOMAIN currentIndex \ {ret'.cursor} :
                    /\ currentIndex'[d] = currentIndex[d]
                    /\ yielded'[d] = yielded[d]
            /\ \A d \in DOMAIN currentIndex :
                    yielded'[d] = SubSeq(items', 1, currentIndex'[d])]_vars

C9_Witness ==
    /\ ret.op = "next" /\ ret.res.err = "none"
    /\ Len(currentIndex) = 2
    /\ currentIndex[1] = 1 /\ currentIndex[2] = 3
    /\ yielded[2] = items

\* C10: under any interleaving of add(), hasNext() and next(), every cursor's
\* position stays within 0..size, starts at 0 and never decreases
C10_PositionBounded ==
    [][/\ \A c \in DOMAIN currentIndex' :
            0 <= currentIndex'[c] /\ currentIndex'[c] <= Len(items')
       /\ \A c \in DOMAIN currentIndex : currentIndex'[c] >= currentIndex[c]
       /\ \A c \in DOMAIN currentIndex' \ DOMAIN currentIndex :
            currentIndex'[c] = 0]_vars

C10_Witness ==
    /\ ret.op = "next" /\ ret.res.err = "out_of_range"
    /\ Len(items) = 1 /\ currentIndex[ret.cursor] = 1
    /\ \E d \in DOMAIN currentIndex : currentIndex[d] = 0

\* ---- Observer demo: pure methods ----------------------------------------
\* faulty variant: a subscriber already in the list is not added again
attach_dedup(obs, o) == IF o \in Range(obs) THEN obs ELSE Append(obs, o)

attach(obs, o) == Append(obs, o)

\* faulty variant: erase(find(...)): only the first matching pointer goes
detach_first_only(obs, o) ==
    IF o \notin Range(obs) THEN obs
    ELSE LET k == CHOOSE i \in 1..Len(obs) :
                    obs[i] = o /\ \A j \in 1..(i - 1) : obs[j] # o
         IN SubSeq(obs, 1, k - 1) \o SubSeq(obs, k + 1, Len(obs))

\* erase(remove_if(..., ptr == observer), end): every matching pointer goes,
\* the others keep their relative order
detach(obs, o) == SelectSeq(obs, LAMBDA ptr : ptr # o)

setState(st, value) == value

getState(st) == st

\* ConcreteObserver::update: the dynamic_cast to ConcreteSubject succeeds for
\* the only Subject class there is; the observer stores getState() and
\* prints the stored value
update(os, o, st) ==
    LET stored == [os EXCEPT ![o] = getState(st)]
    IN [os |-> stored,
        line |-> Line(ObserverObj(o), "updated",
                      <<"ConcreteObserver updated: ", ToString(stored[o])>>)]

\* notify(): update() on each entry of `observers`, first to last
RECURSIVE notifyFrom(_, _, _, _)
notifyFrom(obs, i, st, acc) ==
    IF i > Len(obs) THEN acc
    ELSE LET u == update(acc.os, obs[i], st)
         IN notifyFrom(obs, i + 1, st,
                [os |-> u.os,
                 lines |-> Append(acc.lines, u.line),
                 updated |-> Append(acc.updated, obs[i])])

notify(obs, st, os) == notifyFrom(obs, 1, st, [os |-> os, lines |-> <<>>, updated |-> <<>>])

\* ---- Observer demo: calls -----------------------------------------------
\* ConcreteSubject() leaves `state` uninitialised: any int
InitObserver ==
    /\ demo = "observer"
    /\ stack = <<SubjectObj>>
    /\ trace = <<ConcreteSubjectCtor>>
    /\ ret = [op |-> "ConcreteSubject"]
    /\ items = <<>>
    /\ added = <<>>
    /\ currentIndex = <<>>
    /\ yielded = <<>>
    /\ state \in Ints
    /\ observers = <<>>
    /\ obsState = <<>>
    /\ attachCount = [o \in Observers |-> 0]
    /\ lastNotified = [o \in Observers |-> <<>>]
    /\ animals = <<>>

\* ConcreteObserver() leaves `state` uninitialised: any int
ConstructObserver(v) ==
    /\ demo = "observer"
    /\ Alive(SubjectObj)
    /\ Len(obsState) < NumObservers
    /\ LET o == Len(obsState) + 1 IN
        /\ obsState' = Append(obsState, v)
        /\ stack' = Append(stack, ObserverObj(o))
        /\ trace' = Append(trace, ConcreteObserverCtor(o))
        /\ ret' = [op |-> "ConcreteObserver", observer |-> o]
    /\ UNCHANGED <<demo, iterVars, state, observers, attachCount, lastNotified, visVars>>

CallAttach(o) ==
    /\ demo = "observer"
    /\ Alive(SubjectObj)
    /\ o \in DOMAIN obsState
    /\ Len(observers) < MaxAttached
    /\ observers' = attach(observers, o)
    /\ attachCount' = [attachCount EXCEPT ![o] = @ + 1]
    /\ ret' = [op |-> "attach", observer |-> o]
    /\ UNCHANGED <<demo, stack, trace, iterVars, state, obsState, lastNotified, visVars>>

CallDetach(o) ==
    /\ demo = "observer"
    /\ Alive(SubjectObj)
    /\ o \in DOMAIN obsState
    /\ observers' = detach(observers, o)
    /\ attachCount' = [attachCount EXCEPT ![o] = 0]
    /\ ret' = [op |-> "detach", observer |-> o]
    /\ UNCHANGED <<demo, stack, trace, iterVars, state, obsState, lastNotified, visVars>>

\* faulty variant: setState() broadcasts the new value itself
CallSetState_notifies(value) ==
    /\ demo = "observer"
    /\ Alive(SubjectObj)
    /\ state' = setState(state, value)
    /\ obsState' = notify(observers, setState(state, value), obsState).os
    /\ ret' = [op |-> "setState", arg |-> value]
    /\ UNCHANGED <<demo, stack, trace, iterVars, observers, attachCount,
                   lastNotified, visVars>>

CallSetState(value) ==
    /\ demo = "observer"
    /\ Alive(SubjectObj)
    /\ state' = setState(state, value)
    /\ ret' = [op |-> "setState", arg |-> value]
    /\ UNCHANGED <<demo, stack, trace, iterVars, observers, obsState, attachCount,
                   lastNotified, visVars>>

CallGetState ==
    /\ demo = "observer"
    /\ Alive(SubjectObj)
    /\ ret' = [op |-> "getState", res |-> getState(state)]
    /\ UNCHANGED <<demo, stack, trace, iterVars, obsVars, visVars>>

CallNotify ==
    /\ demo = "observer"
    /\ Alive(SubjectObj)
    /\ LET n == notify(observers, state, obsState) IN
        /\ obsState' = n.os
        /\ ret' = [op |-> "notify", updated |-> n.updated, printed |-> n.lines]
    /\ lastNotified' = [o \in Observers |->
            IF attachCount[o] > 0 THEN <<state>> ELSE lastNotified[o]]
    /\ UNCHANGED <<demo, stack, trace, iterVars, state, observers, attachCount, visVars>>

ReturnObserver ==
    /\ demo = "observer"
    /\ Alive(SubjectObj)
    /\ stack' = <<>>
    /\ trace' = trace \o Unwind(stack, animals, "forward")
    /\ ret' = [op |-> "return"]
    /\ UNCHANGED <<demo, iterVars, obsVars, visVars>>

NextObs ==
    \/ \E v \in Ints : ConstructObserver(v)
    \/ \E o \in Observers : CallAttach(o)
    \/ \E o \in Observers : CallDetach(o)
    \/ \E value \in Ints : CallSetState(value)
    \/ CallGetState
    \/ CallNotify
    \/ ReturnObserver

SpecObs == InitObserver /\ [][NextObs]_vars

\* ---- Observer demo: properties ------------------------------------------
Count(seq, x) == Cardinality({i \in 1..Len(seq) : seq[i] = x})

\* attached: attach(o) has been called since the last detach(o)
Attached(o) == attachCount[o] > 0

\* C4: notify() updates exactly the subscribers attached at the time of the
\* call (each receives the subject's state, every other subscriber keeps its
\* mirrored value), and detach() does not change any mirrored value
C4_NotifyReachesAttached ==
    [][/\ ret'.op = "notify" =>
            \A o \in DOMAIN obsState :
                obsState'[o] = IF Attached(o) THEN state ELSE obsState[o]
       /\ ret'.op = "detach" => obsState' = obsState]_vars

C4_Witness ==
    /\ ret.op = "notify" /\ state = 2
    /\ ~Attached(1) /\ lastNotified[1] = <<1>> /\ obsState[1] = 1
    /\ Attached(2) /\ obsState[2] = 2

\* C5: one notify() invokes update on each subscriber as many times as
\* attach() was called for it since its last detach(); detach(S) removes
\* every reference to S, keeps the other references in their order, and
\* leaves the list unchanged when S is not attached
C5_UpdatesPerAttach ==
    [][/\ ret'.op = "notify" =>
            /\ Len(ret'.updated) = Len(ret'.printed)
            /\ \A o \in Observers : Count(ret'.updated, o) = attachCount[o]
       /\ ret'.op = "detach" =>
            LET o == ret'.observer IN
            /\ Count(observers', o) = 0
            /\ \A q \in Observers \ {o} :
                    Count(observers', q) = Count(observers, q)
            /\ observers' = SelectSeq(observers, LAMBDA q : q # o)
            /\ ~Attached(o) => observers' = observers]_vars

C5_Witness ==
    /\ ret.op = "notify"
    /\ ret.updated = <<1, 2, 1>>
    /\ attachCount[1] = 2

\* C6: setState() stores the value and notifies nobody (no mirrored field and
\* no list entry changes); every subscriber that has received an update
\* holds the subject's state as of the last notify() made while it was
\* attached
C6_SetStateDoesNotNotify ==
    [][/\ ret'.op = "setState" =>
            /\ state' = ret'.arg
            /\ obsState' = obsState
            /\ observers' = observers
       /\ \A o \in DOMAIN obsState' :
            lastNotified'[o] # <<>> => lastNotified'[o] = <<obsState'[o]>>]_vars

C6_Witness ==
    /\ ret.op = "setState" /\ state = 2
    /\ Attached(1) /\ lastNotified[1] = <<1>> /\ obsState[1] = 1

\* ---- Visitor demo: pure methods -----------------------------------------
Animal(kind, name) == [kind |-> kind, name |-> name]

\* the animals a client constructs: the four of main(), and a Tiger that
\* shares its name with a Lion
AnimalChoices ==
    {Animal("Lion", "Simba"), Animal("Lion", "Mufasa"),
     Animal("Tiger", "Shere Khan"), Animal("Tiger", "Sher Khan"),
     Animal("Tiger", "Simba")}

\* FeedingVisitor::visit(const Lion&) and visit(const Tiger&)
VisitLion(a) == Line(VisitorObj, "visit", <<"Feeding to Lion: ", getName(a)>>)
VisitTiger(a) == Line(VisitorObj, "visit", <<"Feeding to Tiger: ", getName(a)>>)

\* Lion::accept and Tiger::accept: visitor.visit(*this), resolved by the
\* static type of *this
LionAccept(a) == VisitLion(a)
TigerAccept(a) == VisitTiger(a)

\* faulty variant: accept() not virtual, every animal handled as a Lion
AnimalAccept_static(a) == LionAccept(a)

\* animal->accept(visitor): virtual call on the animal's concrete class
AnimalAccept(a) == IF a.kind = "Lion" THEN LionAccept(a) ELSE TigerAccept(a)

StartMarker == Line(ZooObj, "marker", <<"---START---">>)
\* the text is written in pieces: four dashes, END, four dashes
EndMarker == Line(ZooObj, "marker", <<"-", "---END---", "-">>)

addAnimal(ans, a) == Append(ans, a)

\* Zoo::accept: the lines it writes
ZooAccept(ans) ==
    <<StartMarker>> \o [i \in 1..Len(ans) |-> AnimalAccept(ans[i])] \o <<EndMarker>>

\* ---- Visitor demo: calls ------------------------------------------------
InitVisitor ==
    /\ demo = "visitor"
    /\ stack = <<ZooObj>>
    /\ trace = <<ZooCtor>>
    /\ ret = [op |-> "Zoo"]
    /\ items = <<>>
    /\ added = <<>>
    /\ currentIndex = <<>>
    /\ yielded = <<>>
    /\ state = 1
    /\ observers = <<>>
    /\ obsState = <<>>
    /\ attachCount = [o \in Observers |-> 0]
    /\ lastNotified = [o \in Observers |-> <<>>]
    /\ animals = <<>>

\* zoo.addAnimal(std::make_unique<Kind>(name)): the animal is constructed,
\* then moved into the zoo
CallAddAnimal(a) ==
    /\ demo = "visitor"
    /\ Alive(ZooObj)
    /\ Len(animals) < MaxAnimals
    /\ trace' = Append(trace, AnimalCtor(Len(animals) + 1, a))
    /\ animals' = addAnimal(animals, a)
    /\ ret' = [op |-> "addAnimal", arg |-> a]
    /\ UNCHANGED <<demo, stack, iterVars, obsVars>>

ConstructVisitor ==
    /\ demo = "visitor"
    /\ Alive(ZooObj)
    /\ ~Alive(VisitorObj)
    /\ stack' = Append(stack, VisitorObj)
    /\ trace' = Append(trace, FeedingVisitorCtor)
    /\ ret' = [op |-> "FeedingVisitor"]
    /\ UNCHANGED <<demo, iterVars, obsVars, visVars>>

CallAccept ==
    /\ demo = "visitor"
    /\ Alive(ZooObj)
    /\ Alive(VisitorObj)
    /\ ret' = [op |-> "accept", printed |-> ZooAccept(animals)]
    /\ UNCHANGED <<demo, stack, trace, iterVars, obsVars, visVars>>

ReturnVisitor(order) ==
    /\ demo = "visitor"
    /\ Alive(ZooObj)
    /\ stack' = <<>>
    /\ trace' = trace \o Unwind(stack, animals, order)
    /\ ret' = [op |-> "return"]
    /\ UNCHANGED <<demo, iterVars, obsVars, visVars>>

NextVis ==
    \/ \E a \in AnimalChoices : CallAddAnimal(a)
    \/ ConstructVisitor
    \/ CallAccept
    \/ \E order \in VectorOrders : ReturnVisitor(order)

SpecVis == InitVisitor /\ [][NextVis]_vars

\* ---- Visitor demo: properties -------------------------------------------
\* C7: Zoo::accept emits the start marker, one line per owned animal in
\* insertion order, each from the handler of the animal's kind and carrying
\* its name, then the end marker; the zoo's list and the animals are unchanged
C7_AcceptVisitsInOrder ==
    [][ret'.op = "accept" =>
            LET p == ret'.printed IN
            /\ animals' = animals
            /\ Len(p) = Len(animals) + 2
            /\ p[1].text = <<"---START---">>
            /\ p[Len(p)].text = <<"-", "---END---", "-">>
            /\ \A i \in 1..Len(animals) :
                    p[i + 1].text =
                        <<IF animals[i].kind = "Lion" THEN "Feeding to Lion: "
                          ELSE "Feeding to Tiger: ",
                          animals[i].name>>]_vars

C7_Witness ==
    /\ ret.op = "accept"
    /\ animals = <<Animal("Lion", "Simba"), Animal("Tiger", "Shere Khan")>>
    /\ Len(ret.printed) = 4

\* ---- the three programs -------------------------------------------------
Init == InitIterator \/ InitObserver \/ InitVisitor

Next == NextIter \/ NextObs \/ NextVis

Spec == Init /\ [][Next]_vars

\* ---- object lifetimes: properties ---------------------------------------
Objects == {trace[i].obj : i \in 1..Len(trace)}
CreatedAt(obj) == {i \in 1..Len(trace) : trace[i].ev = "created" /\ trace[i].obj = obj}
DestroyedAt(obj) == {i \in 1..Len(trace) : trace[i].ev = "destroyed" /\ trace[i].obj = obj}
Before(S, T) == \A i \in S, j \in T : i < j
ReleasedOnce(obj) == Cardinality(DestroyedAt(obj)) = 1
IsAnimal(obj) == obj.cls \in Kinds
Constructions == SelectSeq(trace, LAMBDA l : l.ev = "created")

\* the construction lines of the three main() functions
MainConstructions ==
    CASE demo = "iterator" -> <<CustomCollectionCtor>>
      [] demo = "observer" -> <<ConcreteSubjectCtor, ConcreteObserverCtor(1)>>
      [] demo = "visitor" ->
            <<ZooCtor,
              LionCtor(1, Animal("Lion", "Simba")),
              LionCtor(2, Animal("Lion", "Mufasa")),
              TigerCtor(3, Animal("Tiger", "Shere Khan")),
              TigerCtor(4, Animal("Tiger", "Sher Khan")),
              FeedingVisitorCtor>>

MainReturned == ret.op = "return" /\ Constructions = MainConstructions

\* C8 as stated: when a demo's main() has returned, any two objects are
\* destroyed in the reverse of the order of their construction lines
C8_ReverseOfConstruction ==
    MainReturned =>
        \A X \in Objects, Y \in Objects :
            (X # Y /\ Before(CreatedAt(X), CreatedAt(Y))) =>
                /\ ReleasedOnce(X) /\ ReleasedOnce(Y)
                /\ Before(DestroyedAt(Y), DestroyedAt(X))

\* C8 amended: when main() has returned, every object has exactly one
\* destruction line; the objects of main()'s own scope are destroyed in
\* reverse order of construction; each animal owned by the Zoo is destroyed
\* after the Zoo's own destruction line
C8_ScopeRelease ==
    ret.op = "return" =>
        /\ \A X \in Objects : ReleasedOnce(X)
        /\ \A X \in Objects, Y \in Objects :
            (X # Y /\ ~IsAnimal(X) /\ ~IsAnimal(Y)
                 /\ Before(CreatedAt(X), CreatedAt(Y))) =>
                Before(DestroyedAt(Y), DestroyedAt(X))
        /\ \A Y \in Objects : IsAnimal(Y) => Before(DestroyedAt(ZooObj), DestroyedAt(Y))

C8_Witness ==
    /\ MainReturned
    /\ demo = "visitor"
    /\ Len(trace) = 12

====
